---------------------------- MODULE Spec2Model ----------------------------
(***************************************************************************)
(* The labelling session controller of code/ui/src/actions/index.js: the   *)
(* redux thunks that fetch task, stats and items, submit judgements one by *)
(* one or as a batch, and chain the refreshes that follow a submission.    *)
(*                                                                         *)
(* The store is one record with a slice per reducer.  A handler (a thunk   *)
(* invocation, or the promise continuation that runs when a request        *)
(* settles) is one step: it threads a run state                            *)
(*     [store, inflight, effects]                                          *)
(* through the dispatches and fetches of the handler, in program order.    *)
(* JSON values are records: an array is [array |-> <<...>>], an object is  *)
(* the record of its fields, so that 'error' in json is a DOMAIN test.     *)
(***************************************************************************)
EXTENDS Integers, Sequences, FiniteSets, TLC

VARIABLES
    store,      \* the redux state: task, stats, items, batchItems, judgements, demo
    inflight,   \* requests issued and not yet settled, in issue order
    effects,    \* what the last handler did, in order: actions dispatched, fetches issued
    lastEvent,  \* the last handler that ran, with its input
    calls       \* thunks and clicks the views have invoked so far, up to MaxCalls

vars == <<store, inflight, effects, lastEvent, calls>>

-----------------------------------------------------------------------------
(* Bounds of the model *)

\* requests that may be outstanding together
MaxInFlight == 3
\* length of the longest item page the backend serves
MaxPageLen == 10
\* invocations the views make in a session that is cut short
MaxCalls == 3

-----------------------------------------------------------------------------
(* Action types and action creators *)

FETCH_TASK == "TASK/FETCH"
fetchTask == [type |-> FETCH_TASK]

FETCH_TASK_SUCCESS == "TASK/FETCH/SUCCESS"
fetchTaskSuccess(response) == [type |-> FETCH_TASK_SUCCESS, task |-> response]

FETCH_TASK_FAILURE == "TASK/FETCH/FAILURE"
fetchTaskFailure(error) == [type |-> FETCH_TASK_FAILURE, errorMsg |-> error]

FETCH_STATS == "STATS/FETCH"
fetchStats == [type |-> FETCH_STATS]

FETCH_STATS_SUCCESS == "STATS/FETCH/SUCCESS"
fetchStatsSuccess(response) == [type |-> FETCH_STATS_SUCCESS, stats |-> response]

FETCH_STATS_FAILURE == "STATS/FETCH/FAILURE"
fetchStatsFailure(error) == [type |-> FETCH_STATS_FAILURE, errorMsg |-> error]

FETCH_ITEMS == "ITEMS/FETCH"
fetchItems == [type |-> FETCH_ITEMS]

FETCH_ITEMS_SUCCESS == "ITEMS/FETCH/SUCCESS"
fetchItemsSuccess(response) == [type |-> FETCH_ITEMS_SUCCESS, items |-> response]

FETCH_ITEMS_FAILURE == "ITEMS/FETCH/FAILURE"
fetchItemsFailure(error) == [type |-> FETCH_ITEMS_FAILURE, errorMsg |-> error]

RECORD_JUDGEMENT == "JUDGEMENT/RECORD"
recordJudgement(itemId, judgement) ==
    [type |-> RECORD_JUDGEMENT, itemId |-> itemId, judgement |-> judgement]

RECORD_JUDGEMENT_SUCCESS == "JUDGEMENT/RECORD/SUCCESS"
recordJudgementSuccess(itemId) == [type |-> RECORD_JUDGEMENT_SUCCESS, itemId |-> itemId]

RECORD_JUDGEMENT_FAILURE == "JUDGEMENT/RECORD/FAILURE"
recordJudgementFailure(itemId, error) ==
    [type |-> RECORD_JUDGEMENT_FAILURE, itemId |-> itemId, errorMsg |-> error]

SHOW_NEXT_ITEM == "SHOW_NEXT_ITEM"
showNextItem == [type |-> SHOW_NEXT_ITEM]

LABELLING_COMPLETE == "LABELLING_COMPLETE"
labellingComplete == [type |-> LABELLING_COMPLETE]

SUBMIT_DATA == "DATA/SUBMIT"
submitData(data) == [type |-> SUBMIT_DATA, data |-> data]

SUBMIT_DATA_SUCCESS == "DATA/SUBMIT/SUCCESS"
submitDataSuccess(response) == [type |-> SUBMIT_DATA_SUCCESS, response |-> response]

SUBMIT_DATA_FAILURE == "DATA/SUBMIT/FAILURE"
submitDataFailure(error) == [type |-> SUBMIT_DATA_FAILURE, errorMsg |-> error]

RECORD_JUDGEMENTS == "JUDGEMENTS/RECORD"
recordJudgements(judgements) == [type |-> RECORD_JUDGEMENTS, judgements |-> judgements]

RECORD_JUDGEMENTS_SUCCESS == "JUDGEMENTS/RECORD/SUCCESS"
recordJudgementsSuccess(judgements) ==
    [type |-> RECORD_JUDGEMENTS_SUCCESS, judgements |-> judgements]

RECORD_JUDGEMENTS_FAILURE == "JUDGEMENTS/RECORD/FAILURE"
recordJudgementsFailure(judgements, error) ==
    [type |-> RECORD_JUDGEMENTS_FAILURE, judgements |-> judgements, errorMsg |-> error]

FETCH_BATCH_ITEMS == "ITEMS/BATCH/FETCH"
fetchBatchItems == [type |-> FETCH_BATCH_ITEMS]

FETCH_BATCH_ITEMS_SUCCESS == "ITEMS/BATCH/FETCH/SUCCESS"
fetchBatchItemsSuccess(response) == [type |-> FETCH_BATCH_ITEMS_SUCCESS, items |-> response]

FETCH_BATCH_ITEMS_FAILURE == "ITEMS/BATCH/FETCH/FAILURE"
fetchBatchItemsFailure(error) == [type |-> FETCH_BATCH_ITEMS_FAILURE, errorMsg |-> error]

BATCH_LABELLING_COMPLETE == "BATCH_LABELLING_COMPLETE"
batchLabellingComplete == [type |-> BATCH_LABELLING_COMPLETE]

SET_IS_BATCH_VIEW == "SET_IS_BATCH_VIEW"
setIsBatchView(isBatchView) == [type |-> SET_IS_BATCH_VIEW, isBatchView |-> isBatchView]

-----------------------------------------------------------------------------
(* JSON values and the values the backend serves *)

\* the value of a property that is absent
Undefined == "undefined"
\* a cleared error message
NoError == ""

\* obj[key], as JavaScript reads a property of an object
Get(obj, key) == IF key \in DOMAIN obj THEN obj[key] ELSE Undefined

\* the page `page` of n items; every item carries its path
Page(page, n) == [array |-> [i \in 1..n |-> [path |-> ToString(100 * page + i)]]]

\* the item sequence [{id: 'a'}]: one item that carries an id and no path
ScenarioItems == [array |-> <<[id |-> "a"]>>]

\* GET /batch and GET /batch_items_batch: ordered sequences of Item
ItemPages == {Page(1, 1), Page(2, MaxPageLen)}
BatchPages == {Page(3, 1), Page(4, 2)}

\* GET /history: the stats descriptor
StatsValue(labelled) ==
    [unlabelled |-> 10 - labelled,
     labelled |-> [total |-> labelled, train |-> labelled],
     history |-> <<>>]
StatsDescriptors == {StatsValue(1), StatsValue(2)}

\* GET /task: the task descriptor
TaskDescriptors ==
    {[dataType |-> "images", labelType |-> "classification"],
     [dataType |-> "images", labelType |-> "sequence"],
     [dataType |-> "text", labelType |-> "classification"]}

\* a payload whose only field is an error message
ErrorPayload == [error |-> "backend error"]
\* the payload that ends batch labelling
DonePayload == [done |-> TRUE]
\* a payload with both fields
ErrorDonePayload == [error |-> "backend error", done |-> TRUE]
\* the empty object a POST answers with
EmptyPayload == [accepted |-> TRUE]
PredictionPayload == [prediction |-> "cat"]

\* the label a view passes on and the judgement array a batch view collects
Labels == {"cat"}
BatchJudgements == {<<[id |-> 301, label |-> "cat"]>>}

-----------------------------------------------------------------------------
(* The reducers.  Their code is not among the sources; they follow the     *)
(* transitions the specification states for the Workflow State Store:      *)
(* fetch-* sets the concern's loading flag and clears its error, *-success *)
(* clears loading and replaces the entity, *-failure clears loading and    *)
(* sets the error, leaving the entity; the submission guard is set when a  *)
(* submission begins and cleared when it settles.                          *)

initialState ==
    [task |-> [dataType |-> Undefined, labelType |-> Undefined,
               isBatchView |-> FALSE, fetching |-> FALSE, errorMsg |-> NoError],
     stats |-> [stats |-> StatsValue(0), fetching |-> FALSE, errorMsg |-> NoError],
     items |-> [items |-> Page(0, 0), currentIndex |-> 0, complete |-> FALSE,
                fetching |-> FALSE, errorMsg |-> NoError],
     batchItems |-> [items |-> Page(0, 0), complete |-> FALSE,
                     fetching |-> FALSE, errorMsg |-> NoError],
     judgements |-> [submitting |-> FALSE, errorMsg |-> NoError],
     demo |-> [urlSequence |-> "http://img/1", text |-> "some text",
               response |-> EmptyPayload, fetching |-> FALSE, errorMsg |-> NoError]]

taskReducer(state, action) ==
    CASE action.type = FETCH_TASK ->
            [state EXCEPT !.fetching = TRUE, !.errorMsg = NoError]
      [] action.type = FETCH_TASK_SUCCESS ->
            [state EXCEPT !.dataType = Get(action.task, "dataType"),
                          !.labelType = Get(action.task, "labelType"),
                          !.fetching = FALSE, !.errorMsg = NoError]
      [] action.type = FETCH_TASK_FAILURE ->
            [state EXCEPT !.fetching = FALSE, !.errorMsg = action.errorMsg]
      [] action.type = SET_IS_BATCH_VIEW ->
            [state EXCEPT !.isBatchView = action.isBatchView]
      [] OTHER -> state

statsReducer(state, action) ==
    CASE action.type = FETCH_STATS ->
            [state EXCEPT !.fetching = TRUE, !.errorMsg = NoError]
      [] action.type = FETCH_STATS_SUCCESS ->
            [state EXCEPT !.stats = action.stats,
                          !.fetching = FALSE, !.errorMsg = NoError]
      [] action.type = FETCH_STATS_FAILURE ->
            [state EXCEPT !.fetching = FALSE, !.errorMsg = action.errorMsg]
      [] OTHER -> state

itemsReducer(state, action) ==
    CASE action.type = FETCH_ITEMS ->
            [state EXCEPT !.fetching = TRUE, !.errorMsg = NoError]
      [] action.type = FETCH_ITEMS_SUCCESS ->
            [state EXCEPT !.items = action.items,
                          !.fetching = FALSE, !.errorMsg = NoError]
      [] action.type = FETCH_ITEMS_FAILURE ->
            [state EXCEPT !.fetching = FALSE, !.errorMsg = action.errorMsg]
      [] action.type = SHOW_NEXT_ITEM ->
            [state EXCEPT !.currentIndex = @ + 1]
      [] action.type = LABELLING_COMPLETE ->
            [state EXCEPT !.complete = TRUE]
      [] OTHER -> state

batchItemsReducer(state, action) ==
    CASE action.type = FETCH_BATCH_ITEMS ->
            [state EXCEPT !.fetching = TRUE, !.errorMsg = NoError]
      [] action.type = FETCH_BATCH_ITEMS_SUCCESS ->
            [state EXCEPT !.items = action.items,
                          !.fetching = FALSE, !.errorMsg = NoError]
      [] action.type = FETCH_BATCH_ITEMS_FAILURE ->
            [state EXCEPT !.fetching = FALSE, !.errorMsg = action.errorMsg]
      [] action.type = BATCH_LABELLING_COMPLETE ->
            [state EXCEPT !.complete = TRUE, !.fetching = FALSE]
      [] OTHER -> state

judgementsReducer(state, action) ==
    CASE action.type \in {RECORD_JUDGEMENT, RECORD_JUDGEMENTS} ->
            [state EXCEPT !.submitting = TRUE, !.errorMsg = NoError]
      [] action.type \in {RECORD_JUDGEMENT_SUCCESS, RECORD_JUDGEMENTS_SUCCESS} ->
            [state EXCEPT !.submitting = FALSE, !.errorMsg = NoError]
      [] action.type \in {RECORD_JUDGEMENT_FAILURE, RECORD_JUDGEMENTS_FAILURE} ->
            [state EXCEPT !.submitting = FALSE, !.errorMsg = action.errorMsg]
      [] OTHER -> state

demoReducer(state, action) ==
    CASE action.type = SUBMIT_DATA ->
            [state EXCEPT !.fetching = TRUE, !.errorMsg = NoError]
      [] action.type = SUBMIT_DATA_SUCCESS ->
            [state EXCEPT !.response = action.response,
                          !.fetching = FALSE, !.errorMsg = NoError]
      [] action.type = SUBMIT_DATA_FAILURE ->
            [state EXCEPT !.fetching = FALSE, !.errorMsg = action.errorMsg]
      [] OTHER -> state

rootReducer(state, action) ==
    [task |-> taskReducer(state.task, action),
     stats |-> statsReducer(state.stats, action),
     items |-> itemsReducer(state.items, action),
     batchItems |-> batchItemsReducer(state.batchItems, action),
     judgements |-> judgementsReducer(state.judgements, action),
     demo |-> demoReducer(state.demo, action)]

-----------------------------------------------------------------------------
(* Running a handler: dispatch, fetch, and what a request settles with *)

\* dispatch(action): the reducers run synchronously, before dispatch returns
Dispatch(rs, action) ==
    [rs EXCEPT !.store = rootReducer(rs.store, action),
               !.effects = Append(@, action)]

NoBody == [none |-> TRUE]
NoEnv == [none |-> TRUE]

\* a request, with the continuation (`then`) attached to its promise and the
\* variables that continuation closes over (`env`)
Request(url, method, body, then, env) ==
    [url |-> url, method |-> method, body |-> body, then |-> then, env |-> env]

\* fetch(url, options): the request is sent and the handler goes on
Fetch(rs, request) ==
    [rs EXCEPT !.inflight = Append(@, request),
               !.effects = Append(@, [type |-> "fetch", url |-> request.url,
                                      method |-> request.method,
                                      body |-> request.body])]

\* console.log(message)
Log(rs, message) ==
    [rs EXCEPT !.effects = Append(@, [type |-> "console.log", message |-> message])]

\* an exception that leaves the handler
Throw(rs, error) ==
    [rs EXCEPT !.effects = Append(@, [type |-> "throw", error |-> error])]

\* what a request settles with: the fetch promise rejects, or resolves to a
\* response with a status and a body
Rejected(message) == [settled |-> "rejected", message |-> message]
HttpError(statusText) == [settled |-> "response", ok |-> FALSE, statusText |-> statusText]
HttpOk(json) == [settled |-> "response", ok |-> TRUE, json |-> json]

\* the first stage of every promise chain: a rejected fetch or a response that
\* is not ok reaches the catch with a message, anything else yields the body
readJson(response) ==
    IF response.settled = "rejected"
    THEN [thrown |-> TRUE, message |-> response.message]
    ELSE IF ~response.ok
         THEN [thrown |-> TRUE, message |-> response.statusText]
         ELSE [thrown |-> FALSE, json |-> response.json]

-----------------------------------------------------------------------------
(* The thunks, and the continuation each attaches to its request *)

getNextBatch(rs, params) ==
    Fetch(Dispatch(rs, fetchItems),
          Request("/batch?" \o params, "GET", NoBody, "getNextBatch", NoEnv))

getNextBatchSettled(rs, request, response) ==
    LET r == readJson(response) IN
    IF r.thrown
    THEN Dispatch(rs, fetchItemsFailure("Error fetching batch items: " \o r.message))
    ELSE Dispatch(rs, fetchItemsSuccess(r.json))

getStats(rs) ==
    Fetch(Dispatch(rs, fetchStats),
          Request("/history", "GET", NoBody, "getStats", NoEnv))

\* getStatsSettled without the test of response.ok: the body of an error
\* response is handed on as if it were the stats
getStatsSettled_noOkCheck(rs, request, response) ==
    IF response.settled = "rejected"
    THEN Dispatch(rs, fetchStatsFailure("Error fetching stats: " \o response.message))
    ELSE IF ~response.ok
         THEN Dispatch(rs, fetchStatsSuccess([message |-> response.statusText]))
         ELSE Dispatch(rs, fetchStatsSuccess(response.json))

\* getStatsSettled keeping the stats it has while another refresh is in flight
getStatsSettled_keepsWhileRefreshing(rs, request, response) ==
    LET r == readJson(response) IN
    IF r.thrown
    THEN Dispatch(rs, fetchStatsFailure("Error fetching stats: " \o r.message))
    ELSE IF \E i \in DOMAIN rs.inflight : rs.inflight[i].then = "getStats"
         THEN rs
         ELSE Dispatch(rs, fetchStatsSuccess(r.json))

getStatsSettled(rs, request, response) ==
    LET r == readJson(response) IN
    IF r.thrown
    THEN Dispatch(rs, fetchStatsFailure("Error fetching stats: " \o r.message))
    ELSE Dispatch(rs, fetchStatsSuccess(r.json))

getTask(rs) ==
    Fetch(Dispatch(rs, fetchTask),
          Request("/task", "GET", NoBody, "getTask", NoEnv))

getTaskSettled(rs, request, response) ==
    LET r == readJson(response) IN
    IF r.thrown
    THEN Dispatch(rs, fetchTaskFailure("Error fetching stats: " \o r.message))
    ELSE Dispatch(rs, fetchTaskSuccess(r.json))

\* items[index] is an element: items is an array and index is within it
HasElement(items, index) ==
    "array" \in DOMAIN items /\ (index + 1) \in DOMAIN items.array

\* readAhead with the comparison made inclusive
readAhead_inclusive(currentIndex, items) == currentIndex + 4 >= Len(items.array)

\* the read-ahead test of the success callback
readAhead(currentIndex, items) == currentIndex + 4 > Len(items.array)

\* successCallback advancing the cursor before the refreshes
successCallback_advanceFirst(rs, env) ==
    LET advanced == Dispatch(rs, showNextItem)
        fetched == IF readAhead(env.currentIndex, env.items)
                   THEN getNextBatch(advanced, "")
                   ELSE advanced
    IN getStats(fetched)

\* successCallback deciding the read-ahead on the store as it is when the
\* response arrives
successCallback_readsStore(rs, env) ==
    LET fetched == IF readAhead(rs.store.items.currentIndex, rs.store.items.items)
                   THEN getNextBatch(rs, "")
                   ELSE rs
    IN Dispatch(getStats(fetched), showNextItem)

\* the callback submitJudgement passes on; env holds the currentIndex and
\* items it captured when submitJudgement ran
successCallback(rs, env) ==
    LET fetched == IF readAhead(env.currentIndex, env.items)
                   THEN getNextBatch(rs, "")
                   ELSE rs
    IN Dispatch(getStats(fetched), showNextItem)

\* JSON.stringify({ id: itemId, label: judgement }): a property whose value is
\* undefined is left out
judgementBody(itemId, judgement) ==
    IF itemId = Undefined
    THEN [label |-> judgement]
    ELSE [id |-> itemId, label |-> judgement]

\* submitJudgementToBackend with the two properties of the body exchanged
submitJudgementToBackend_swapped(rs, itemId, judgement, env) ==
    Fetch(Dispatch(rs, recordJudgement(itemId, judgement)),
          Request("/judgements", "POST", judgementBody(judgement, itemId),
                  "submitJudgementToBackend",
                  [itemId |-> itemId, currentIndex |-> env.currentIndex,
                   items |-> env.items]))

submitJudgementToBackend(rs, itemId, judgement, env) ==
    Fetch(Dispatch(rs, recordJudgement(itemId, judgement)),
          Request("/judgements", "POST", judgementBody(itemId, judgement),
                  "submitJudgementToBackend",
                  [itemId |-> itemId, currentIndex |-> env.currentIndex,
                   items |-> env.items]))

\* submitJudgementToBackendSettled without the test for an error field
submitJudgementToBackendSettled_noErrorField(rs, request, response) ==
    LET r == readJson(response)
        itemId == request.env.itemId
    IN
    IF r.thrown
    THEN Dispatch(rs, recordJudgementFailure(itemId, r.message))
    ELSE successCallback(Dispatch(rs, recordJudgementSuccess(itemId)), request.env)

\* submitJudgementToBackendSettled discarding a response that arrives in batch
\* view
submitJudgementToBackendSettled_droppedInBatchView(rs, request, response) ==
    LET r == readJson(response)
        itemId == request.env.itemId
    IN
    IF rs.store.task.isBatchView
    THEN rs
    ELSE IF r.thrown
         THEN Dispatch(rs, recordJudgementFailure(itemId, r.message))
         ELSE IF "error" \in DOMAIN r.json
              THEN Dispatch(rs, recordJudgementFailure(itemId, r.json.error))
              ELSE successCallback(Dispatch(rs, recordJudgementSuccess(itemId)),
                                   request.env)

\* submitJudgementToBackendSettled running the callback after a failure as well
submitJudgementToBackendSettled_callbackAlways(rs, request, response) ==
    LET r == readJson(response)
        itemId == request.env.itemId
    IN
    IF r.thrown
    THEN successCallback(Dispatch(rs, recordJudgementFailure(itemId, r.message)),
                         request.env)
    ELSE IF "error" \in DOMAIN r.json
         THEN successCallback(Dispatch(rs, recordJudgementFailure(itemId, r.json.error)),
                              request.env)
         ELSE successCallback(Dispatch(rs, recordJudgementSuccess(itemId)),
                              request.env)

submitJudgementToBackendSettled(rs, request, response) ==
    LET r == readJson(response)
        itemId == request.env.itemId
    IN
    IF r.thrown
    THEN Dispatch(rs, recordJudgementFailure(itemId, r.message))
    ELSE IF "error" \in DOMAIN r.json
         THEN Dispatch(rs, recordJudgementFailure(itemId, r.json.error))
         ELSE successCallback(Dispatch(rs, recordJudgementSuccess(itemId)),
                              request.env)

\* submitJudgement without the test of the submitting flag
submitJudgement_unguarded(rs, judgement) ==
    LET state == rs.store
        currentIndex == state.items.currentIndex
        items == state.items.items
    IN
    IF ~HasElement(items, currentIndex)
    THEN Throw(rs, "TypeError")
    ELSE submitJudgementToBackend(rs, Get(items.array[currentIndex + 1], "path"), judgement,
                                  [currentIndex |-> currentIndex, items |-> items])

\* submitJudgement going on with an undefined id when the cursor points at no
\* item
submitJudgement_withoutItem(rs, judgement) ==
    LET state == rs.store
        currentIndex == state.items.currentIndex
        items == state.items.items
    IN
    IF state.judgements.submitting
    THEN Log(rs, "Double called submitJudgement.")
    ELSE IF ~HasElement(items, currentIndex)
         THEN submitJudgementToBackend(rs, Undefined, judgement,
                                       [currentIndex |-> currentIndex, items |-> items])
         ELSE submitJudgementToBackend(rs, Get(items.array[currentIndex + 1], "path"),
                                       judgement,
                                       [currentIndex |-> currentIndex, items |-> items])

submitJudgement(rs, judgement) ==
    LET state == rs.store
        currentIndex == state.items.currentIndex
        items == state.items.items
    IN
    IF state.judgements.submitting
    THEN Log(rs, "Double called submitJudgement.")
    ELSE IF ~HasElement(items, currentIndex)
         THEN Throw(rs, "TypeError")
         ELSE submitJudgementToBackend(rs, Get(items.array[currentIndex + 1], "path"), judgement,
                                       [currentIndex |-> currentIndex, items |-> items])

\* the body submitDataToScore builds from the task's data type
scoreBody(state) ==
    IF state.task.dataType = "images"
    THEN [type |-> "images", urls |-> <<state.demo.urlSequence>>]
    ELSE IF state.task.dataType = "text"
         THEN [type |-> "text", texts |-> <<state.demo.text>>]
         ELSE [null |-> TRUE]

submitDataToScore(rs) ==
    LET body == scoreBody(rs.store) IN
    Fetch(Dispatch(rs, submitData(body)),
          Request("/predict", "POST", body, "submitDataToScore", NoEnv))

\* submitDataToScoreSettled without the test for an error field
submitDataToScoreSettled_noErrorField(rs, request, response) ==
    LET r == readJson(response) IN
    IF r.thrown
    THEN Dispatch(rs, submitDataFailure(r.message))
    ELSE Dispatch(rs, submitDataSuccess(r.json))

submitDataToScoreSettled(rs, request, response) ==
    LET r == readJson(response) IN
    IF r.thrown
    THEN Dispatch(rs, submitDataFailure(r.message))
    ELSE IF "error" \in DOMAIN r.json
         THEN Dispatch(rs, submitDataFailure(r.json.error))
         ELSE Dispatch(rs, submitDataSuccess(r.json))

fetchNextBatchItemsBatch(rs) ==
    Fetch(Dispatch(rs, fetchBatchItems),
          Request("/batch_items_batch", "GET", NoBody, "fetchNextBatchItemsBatch", NoEnv))

\* fetchNextBatchItemsBatchSettled without the test of the done flag
fetchNextBatchItemsBatchSettled_ignoresDone(rs, request, response) ==
    LET r == readJson(response) IN
    IF r.thrown
    THEN Dispatch(rs, fetchBatchItemsFailure("Error fetching batch items: " \o r.message))
    ELSE Dispatch(rs, fetchBatchItemsSuccess(r.json))

fetchNextBatchItemsBatchSettled(rs, request, response) ==
    LET r == readJson(response) IN
    IF r.thrown
    THEN Dispatch(rs, fetchBatchItemsFailure("Error fetching batch items: " \o r.message))
    ELSE IF "done" \in DOMAIN r.json /\ r.json.done
         THEN Dispatch(rs, batchLabellingComplete)
         ELSE Dispatch(rs, fetchBatchItemsSuccess(r.json))

submitBatchJudgementsToBackend(rs, judgements) ==
    Fetch(Dispatch(rs, recordJudgements(judgements)),
          Request("/judgements/batch", "POST", [labels |-> judgements],
                  "submitBatchJudgementsToBackend", [judgements |-> judgements]))

\* submitBatchJudgementsToBackendSettled without the test for an error field
submitBatchJudgementsToBackendSettled_noErrorField(rs, request, response) ==
    LET r == readJson(response)
        judgements == request.env.judgements
    IN
    IF r.thrown
    THEN Dispatch(rs, recordJudgementsFailure(judgements, r.message))
    ELSE getStats(fetchNextBatchItemsBatch(
             Dispatch(rs, recordJudgementsSuccess(judgements))))

\* submitBatchJudgementsToBackendSettled without the catch at the end of the chain
submitBatchJudgementsToBackendSettled_noCatch(rs, request, response) ==
    LET r == readJson(response)
        judgements == request.env.judgements
    IN
    IF r.thrown
    THEN rs
    ELSE IF "error" \in DOMAIN r.json
         THEN rs
         ELSE getStats(fetchNextBatchItemsBatch(
                  Dispatch(rs, recordJudgementsSuccess(judgements))))

\* submitBatchJudgementsToBackendSettled asking for no further batch page once
\* batch labelling is complete
submitBatchJudgementsToBackendSettled_stopsWhenComplete(rs, request, response) ==
    LET r == readJson(response)
        judgements == request.env.judgements
        recorded == Dispatch(rs, recordJudgementsSuccess(judgements))
    IN
    IF r.thrown
    THEN Dispatch(rs, recordJudgementsFailure(judgements, r.message))
    ELSE IF "error" \in DOMAIN r.json
         THEN Dispatch(rs, recordJudgementsFailure(judgements, r.json.error))
         ELSE IF rs.store.batchItems.complete
              THEN getStats(recorded)
              ELSE getStats(fetchNextBatchItemsBatch(recorded))

submitBatchJudgementsToBackendSettled(rs, request, response) ==
    LET r == readJson(response)
        judgements == request.env.judgements
    IN
    IF r.thrown
    THEN Dispatch(rs, recordJudgementsFailure(judgements, r.message))
    ELSE IF "error" \in DOMAIN r.json
         THEN Dispatch(rs, recordJudgementsFailure(judgements, r.json.error))
         ELSE getStats(fetchNextBatchItemsBatch(
                  Dispatch(rs, recordJudgementsSuccess(judgements))))

\* submitBatchJudgements without the test of the submitting flag
submitBatchJudgements_unguarded(rs, judgements) ==
    submitBatchJudgementsToBackend(rs, judgements)

submitBatchJudgements(rs, judgements) ==
    IF rs.store.judgements.submitting
    THEN Log(rs, "Double called submitJudgements.")
    ELSE submitBatchJudgementsToBackend(rs, judgements)

\* toggleBatchViewRendered without the test of the task: the toggle is always
\* offered
toggleBatchViewRendered_always(state) == TRUE

\* the navigation bar offers the Single / Batch toggle
toggleBatchViewRendered(state) ==
    /\ state.task.dataType = "images"
    /\ state.task.labelType \in {"binary", "classification"}

-----------------------------------------------------------------------------
(* The state machine: one step per handler *)

\* the run state a handler starts from
Begin == [store |-> store, inflight |-> inflight, effects |-> <<>>]

\* the run state the continuation of request i starts from
Settling(i) ==
    [store |-> store,
     inflight |-> SubSeq(inflight, 1, i - 1) \o SubSeq(inflight, i + 1, Len(inflight)),
     effects |-> <<>>]

\* the handler ends in run state rs
Commit(rs, event) ==
    /\ Len(rs.inflight) <= MaxInFlight
    /\ store' = rs.store
    /\ inflight' = rs.inflight
    /\ effects' = rs.effects
    /\ lastEvent' = event

\* a view invokes a thunk, which ends in run state rs
Invoke(rs, event) ==
    /\ Commit(rs, event)
    /\ calls' = IF calls < MaxCalls THEN calls + 1 ELSE calls

Init ==
    /\ store = initialState
    /\ inflight = <<>>
    /\ effects = <<>>
    /\ lastEvent = [op |-> "init"]
    /\ calls = 0

\* query strings the views forward to getNextBatch
ItemQueries == {""}

GetTask == Invoke(getTask(Begin), [op |-> "getTask"])

GetStats == Invoke(getStats(Begin), [op |-> "getStats"])

GetNextBatch ==
    \E params \in ItemQueries :
        Invoke(getNextBatch(Begin, params), [op |-> "getNextBatch", params |-> params])

FetchNextBatchItemsBatch ==
    Invoke(fetchNextBatchItemsBatch(Begin), [op |-> "fetchNextBatchItemsBatch"])

SubmitJudgement ==
    \E judgement \in Labels :
        Invoke(submitJudgement(Begin, judgement),
               [op |-> "submitJudgement", judgement |-> judgement])

SubmitBatchJudgements ==
    \E judgements \in BatchJudgements :
        Invoke(submitBatchJudgements(Begin, judgements),
               [op |-> "submitBatchJudgements", judgements |-> judgements])

SubmitDataToScore == Invoke(submitDataToScore(Begin), [op |-> "submitDataToScore"])

\* a click on a label of the toggle, which is there only when it is rendered
OnClickBatch ==
    /\ toggleBatchViewRendered(store)
    /\ Commit(Dispatch(Begin, setIsBatchView(TRUE)), [op |-> "onClickBatch"])
    /\ UNCHANGED calls

OnClickSingle ==
    /\ toggleBatchViewRendered(store)
    /\ Commit(Dispatch(Begin, setIsBatchView(FALSE)), [op |-> "onClickSingle"])
    /\ UNCHANGED calls

\* request i settles with `response` and its continuation has run, ending in rs
Settled(i, response, rs) ==
    /\ Commit(rs, [op |-> "settled", index |-> i, request |-> inflight[i],
                   response |-> response])
    /\ UNCHANGED calls

\* Each continuation, for a backend that answers with one of `responses`.

GetTaskSettles(responses) ==
    \E i \in DOMAIN inflight : \E response \in responses :
        /\ inflight[i].then = "getTask"
        /\ Settled(i, response, getTaskSettled(Settling(i), inflight[i], response))

GetStatsSettles(responses) ==
    \E i \in DOMAIN inflight : \E response \in responses :
        /\ inflight[i].then = "getStats"
        /\ Settled(i, response, getStatsSettled(Settling(i), inflight[i], response))

GetNextBatchSettles(responses) ==
    \E i \in DOMAIN inflight : \E response \in responses :
        /\ inflight[i].then = "getNextBatch"
        /\ Settled(i, response, getNextBatchSettled(Settling(i), inflight[i], response))

FetchNextBatchItemsBatchSettles(responses) ==
    \E i \in DOMAIN inflight : \E response \in responses :
        /\ inflight[i].then = "fetchNextBatchItemsBatch"
        /\ Settled(i, response,
                   fetchNextBatchItemsBatchSettled(Settling(i), inflight[i], response))

SubmitJudgementSettles(responses) ==
    \E i \in DOMAIN inflight : \E response \in responses :
        /\ inflight[i].then = "submitJudgementToBackend"
        /\ Settled(i, response,
                   submitJudgementToBackendSettled(Settling(i), inflight[i], response))

SubmitBatchJudgementsSettles(responses) ==
    \E i \in DOMAIN inflight : \E response \in responses :
        /\ inflight[i].then = "submitBatchJudgementsToBackend"
        /\ Settled(i, response,
                   submitBatchJudgementsToBackendSettled(Settling(i), inflight[i], response))

SubmitDataToScoreSettles(responses) ==
    \E i \in DOMAIN inflight : \E response \in responses :
        /\ inflight[i].then = "submitDataToScore"
        /\ Settled(i, response,
                   submitDataToScoreSettled(Settling(i), inflight[i], response))

-----------------------------------------------------------------------------
(* What the backend answers with *)

\* a request can fail in transport: the fetch promise rejects, or the status
\* is not a success status
TransportFailures == {Rejected("Failed to fetch"), HttpError("Internal Server Error")}
StatusFailure == {HttpError("Internal Server Error")}
Ok(payloads) == {HttpOk(j) : j \in payloads}

\* the two POST routes answer {} or {error}
JudgementResponses == TransportFailures \cup Ok({EmptyPayload, ErrorPayload})

-----------------------------------------------------------------------------
(* The single-item session: the view loads item pages and submits one      *)
(* judgement at a time.                                                    *)

SingleItemsResponses == TransportFailures \cup Ok(ItemPages)
SingleStatsResponses == TransportFailures \cup Ok(StatsDescriptors)

NextSingle ==
    \/ GetNextBatch
    \/ SubmitJudgement
    \/ GetNextBatchSettles(SingleItemsResponses)
    \/ GetStatsSettles(SingleStatsResponses)
    \/ SubmitJudgementSettles(JudgementResponses)

SpecSingle == Init /\ [][NextSingle]_vars

-----------------------------------------------------------------------------
(* The batch session: the view loads a batch page and submits its          *)
(* judgements as one unit.                                                 *)

BatchItemsResponses == TransportFailures \cup Ok(BatchPages \cup {DonePayload, ErrorPayload})

NextBatch ==
    \/ FetchNextBatchItemsBatch
    \/ SubmitBatchJudgements
    \/ FetchNextBatchItemsBatchSettles(BatchItemsResponses)
    \/ GetStatsSettles(SingleStatsResponses)
    \/ SubmitBatchJudgementsSettles(JudgementResponses)

SpecBatch == Init /\ [][NextBatch]_vars

-----------------------------------------------------------------------------
(* Both submission pipelines together, over a backend that serves one item *)
(* page, one batch page and one stats descriptor.                          *)

ShortItemsResponses == StatusFailure \cup Ok({Page(1, 2)})
ShortBatchItemsResponses == StatusFailure \cup Ok({Page(3, 1), DonePayload})
ShortStatsResponses == StatusFailure \cup Ok({StatsValue(1)})
ShortJudgementResponses == StatusFailure \cup Ok({EmptyPayload, ErrorPayload})

Next ==
    \/ GetNextBatch
    \/ SubmitJudgement
    \/ SubmitBatchJudgements
    \/ GetNextBatchSettles(ShortItemsResponses)
    \/ FetchNextBatchItemsBatchSettles(ShortBatchItemsResponses)
    \/ GetStatsSettles(ShortStatsResponses)
    \/ SubmitJudgementSettles(ShortJudgementResponses)
    \/ SubmitBatchJudgementsSettles(ShortJudgementResponses)

Spec == Init /\ [][Next]_vars

-----------------------------------------------------------------------------
(* Every call of the client, over a backend that may answer any route with *)
(* a payload carrying an error field, in sessions of at most MaxCalls      *)
(* invocations.                                                            *)

AnyTaskResponses ==
    StatusFailure \cup Ok({[dataType |-> "images", labelType |-> "classification"],
                           ErrorPayload})
AnyStatsResponses == StatusFailure \cup Ok({StatsValue(1), ErrorPayload})
AnyItemsResponses == StatusFailure \cup Ok({Page(1, 2), ErrorPayload})
AnyBatchItemsResponses ==
    StatusFailure \cup Ok({Page(3, 1), DonePayload, ErrorPayload, ErrorDonePayload})
AnyJudgementResponses == StatusFailure \cup Ok({EmptyPayload, ErrorPayload})
AnyPredictResponses == StatusFailure \cup Ok({PredictionPayload, ErrorPayload})

\* the session is cut short after MaxCalls invocations
CallsLeft == calls < MaxCalls

NextClient ==
    \/ CallsLeft /\ GetTask
    \/ CallsLeft /\ GetStats
    \/ CallsLeft /\ GetNextBatch
    \/ CallsLeft /\ FetchNextBatchItemsBatch
    \/ CallsLeft /\ SubmitJudgement
    \/ CallsLeft /\ SubmitBatchJudgements
    \/ CallsLeft /\ SubmitDataToScore
    \/ GetTaskSettles(AnyTaskResponses)
    \/ GetStatsSettles(AnyStatsResponses)
    \/ GetNextBatchSettles(AnyItemsResponses)
    \/ FetchNextBatchItemsBatchSettles(AnyBatchItemsResponses)
    \/ SubmitJudgementSettles(AnyJudgementResponses)
    \/ SubmitBatchJudgementsSettles(AnyJudgementResponses)
    \/ SubmitDataToScoreSettles(AnyPredictResponses)

SpecClient == Init /\ [][NextClient]_vars

-----------------------------------------------------------------------------
(* Vocabulary of the properties *)

\* the submission requests among the requests q
SubmissionThunks == {"submitJudgementToBackend", "submitBatchJudgementsToBackend"}
SubmissionRequests(q) == {i \in DOMAIN q : q[i].then \in SubmissionThunks}

\* the types of the effects e, and the fetches among them
Types(e) == {e[i].type : i \in DOMAIN e}
Fetched(e, url) == \E i \in DOMAIN e : e[i].type = "fetch" /\ e[i].url = url

\* the event ev is the settlement of a request of thunk `then`
SettledBy(ev, then) == ev.op = "settled" /\ ev.request.then = then

\* a response with a success status
OkResponse(response) == response.settled = "response" /\ response.ok
\* a response with a success status whose payload has an error field
ErrorFieldResponse(response) == OkResponse(response) /\ "error" \in DOMAIN response.json
\* the message of a request that failed in transport
TransportMessage(response) ==
    IF response.settled = "rejected" THEN response.message ELSE response.statusText
\* the message a failed submission reports
FailureMessage(response) ==
    IF OkResponse(response) THEN response.json.error ELSE TransportMessage(response)

\* a single-item submission settled with success, or with failure
SingleSuccess(ev) ==
    /\ SettledBy(ev, "submitJudgementToBackend")
    /\ OkResponse(ev.response) /\ ~ErrorFieldResponse(ev.response)
SingleFailure(ev) ==
    /\ SettledBy(ev, "submitJudgementToBackend")
    /\ (~OkResponse(ev.response) \/ ErrorFieldResponse(ev.response))
BatchFailure(ev) ==
    /\ SettledBy(ev, "submitBatchJudgementsToBackend")
    /\ (~OkResponse(ev.response) \/ ErrorFieldResponse(ev.response))

-----------------------------------------------------------------------------
(* C1 *)

\* C1: at most one submission request (POST /judgements or POST
\* /judgements/batch, counted together) is in flight at any time.
C1_AtMostOneSubmissionInFlight == Cardinality(SubmissionRequests(inflight)) <= 1

\* a batch submission was invoked while a single-item submission was in
\* flight, and was dropped
C1_Witness ==
    /\ lastEvent.op = "submitBatchJudgements"
    /\ Types(effects) = {"console.log"}
    /\ \E i \in DOMAIN inflight : inflight[i].then = "submitJudgementToBackend"

-----------------------------------------------------------------------------
(* C2 *)

\* C2: when submitting is true, an invocation of submitJudgement or
\* submitBatchJudgements dispatches no action, issues no request and leaves
\* every field of the store unchanged (it only writes a line to the console).
C2_DuplicateSubmitChangesNothing ==
    [][(/\ store.judgements.submitting
        /\ lastEvent'.op \in {"submitJudgement", "submitBatchJudgements"})
       => (/\ store' = store
           /\ inflight' = inflight
           /\ Types(effects') \subseteq {"console.log"})]_vars

\* submitJudgement was invoked while a submission was in flight
C2_Witness ==
    /\ lastEvent.op = "submitJudgement"
    /\ store.judgements.submitting
    /\ effects = <<[type |-> "console.log", message |-> "Double called submitJudgement."]>>
    /\ SubmissionRequests(inflight) # {}

-----------------------------------------------------------------------------
(* C3 *)

\* C3: submitting is true if and only if a submission request has been started
\* and has not settled; it becomes true exactly in the steps that dispatch
\* RECORD_JUDGEMENT or RECORD_JUDGEMENTS and becomes false exactly in the steps
\* that dispatch the SUCCESS or FAILURE action of a submission.
C3_GuardLifecycle ==
    /\ [](store.judgements.submitting <=> SubmissionRequests(inflight) # {})
    /\ [][/\ (~store.judgements.submitting /\ store'.judgements.submitting)
             <=> Types(effects') \cap {RECORD_JUDGEMENT, RECORD_JUDGEMENTS} # {}
          /\ (store.judgements.submitting /\ ~store'.judgements.submitting)
             <=> Types(effects') \cap {RECORD_JUDGEMENT_SUCCESS, RECORD_JUDGEMENT_FAILURE,
                                       RECORD_JUDGEMENTS_SUCCESS, RECORD_JUDGEMENTS_FAILURE}
                 # {}]_vars

\* a batch submission has settled with a failure and the guard is clear
C3_Witness ==
    /\ BatchFailure(lastEvent)
    /\ Types(effects) = {RECORD_JUDGEMENTS_FAILURE}
    /\ ~store.judgements.submitting
    /\ SubmissionRequests(inflight) = {}

-----------------------------------------------------------------------------
(* C4 *)

\* C4, as stated: a successful single-item submission started at cursor
\* currentIndex over n items fetches the next item page exactly when
\* currentIndex + 4 >= n.
C4_ReadAheadInclusive ==
    SingleSuccess(lastEvent)
    => (Fetched(effects, "/batch?")
        <=> lastEvent.request.env.currentIndex + 4
            >= Len(lastEvent.request.env.items.array))

\* C4, amended: a successful single-item submission started at cursor
\* currentIndex over n items fetches the next item page exactly when
\* currentIndex + 4 > n.
C4_ReadAheadTrigger ==
    SingleSuccess(lastEvent)
    => (Fetched(effects, "/batch?")
        <=> lastEvent.request.env.currentIndex + 4
            > Len(lastEvent.request.env.items.array))

\* a submission started at currentIndex = n - 4 on the longest page has
\* succeeded and fetched nothing
C4_Witness ==
    /\ SingleSuccess(lastEvent)
    /\ Len(lastEvent.request.env.items.array) = MaxPageLen
    /\ lastEvent.request.env.currentIndex + 4 = MaxPageLen
    /\ ~Fetched(effects, "/batch?")

-----------------------------------------------------------------------------
(* C5 *)

\* C5: after a successful single-item submission the cursor advances by one
\* only if the advanced cursor points at a known item; if the advance would
\* run past the end of the known items, LABELLING_COMPLETE is dispatched
\* instead of SHOW_NEXT_ITEM.
C5_AdvanceOrComplete ==
    SingleSuccess(lastEvent)
    => IF HasElement(store.items.items, lastEvent.request.env.currentIndex + 1)
       THEN /\ SHOW_NEXT_ITEM \in Types(effects)
            /\ store.items.currentIndex = lastEvent.request.env.currentIndex + 1
       ELSE /\ LABELLING_COMPLETE \in Types(effects)
            /\ SHOW_NEXT_ITEM \notin Types(effects)
            /\ store.items.currentIndex = lastEvent.request.env.currentIndex

-----------------------------------------------------------------------------
(* C6 *)

\* C6: when a /batch_items_batch request settles with a success status, a
\* payload carrying done = true yields exactly BATCH_LABELLING_COMPLETE and the
\* batch item sequence is not replaced; any other payload yields exactly
\* FETCH_BATCH_ITEMS_SUCCESS, which replaces the batch item sequence.
C6_BatchCompletionTransition ==
    [][(/\ SettledBy(lastEvent', "fetchNextBatchItemsBatch")
        /\ OkResponse(lastEvent'.response))
       => IF "done" \in DOMAIN lastEvent'.response.json /\ lastEvent'.response.json.done
          THEN /\ effects' = <<batchLabellingComplete>>
               /\ store'.batchItems.complete
               /\ store'.batchItems.items = store.batchItems.items
          ELSE /\ effects' = <<fetchBatchItemsSuccess(lastEvent'.response.json)>>
               /\ store'.batchItems.items = lastEvent'.response.json]_vars

\* a loaded batch page is still in the store after the backend answered done
C6_Witness ==
    /\ SettledBy(lastEvent, "fetchNextBatchItemsBatch")
    /\ lastEvent.response = HttpOk(DonePayload)
    /\ store.batchItems.complete
    /\ store.batchItems.items \in BatchPages

-----------------------------------------------------------------------------
(* C7 *)

\* C7: when POST /judgements fails (rejected, a status that is not a success,
\* or a payload with an error field), the handler dispatches
\* RECORD_JUDGEMENT_FAILURE with the message and nothing else: the guard is
\* cleared, the message is recorded, no request is issued, and the items,
\* the cursor and the stats are unchanged.
C7_SingleFailurePath ==
    [][SingleFailure(lastEvent')
       => (/\ effects' = <<recordJudgementFailure(lastEvent'.request.env.itemId,
                                                  FailureMessage(lastEvent'.response))>>
           /\ ~store'.judgements.submitting
           /\ store'.judgements.errorMsg = FailureMessage(lastEvent'.response)
           /\ Len(inflight') = Len(inflight) - 1
           /\ store'.items = store.items
           /\ store'.stats = store.stats)]_vars

\* a submission was refused with an error field and its item is still current
C7_Witness ==
    /\ SingleFailure(lastEvent)
    /\ lastEvent.response = HttpOk(ErrorPayload)
    /\ store.judgements.errorMsg = "backend error"
    /\ ~store.judgements.submitting
    /\ store.items.currentIndex = lastEvent.request.env.currentIndex
    /\ HasElement(store.items.items, store.items.currentIndex)
    /\ store.items.items.array[store.items.currentIndex + 1].path
       = lastEvent.request.env.itemId

-----------------------------------------------------------------------------
(* C8 *)

\* C8: when POST /judgements/batch fails, the handler dispatches
\* RECORD_JUDGEMENTS_FAILURE with the message and nothing else: the guard is
\* cleared, the message is recorded, neither the next-batch fetch nor the
\* stats refresh is issued, and the batch items are unchanged.
C8_BatchFailurePath ==
    [][BatchFailure(lastEvent')
       => (/\ effects' = <<recordJudgementsFailure(lastEvent'.request.env.judgements,
                                                   FailureMessage(lastEvent'.response))>>
           /\ ~store'.judgements.submitting
           /\ store'.judgements.errorMsg = FailureMessage(lastEvent'.response)
           /\ Len(inflight') = Len(inflight) - 1
           /\ store'.batchItems = store.batchItems
           /\ store'.stats = store.stats)]_vars

\* a batch submission over a loaded page was refused and the page is still there
C8_Witness ==
    /\ BatchFailure(lastEvent)
    /\ lastEvent.response = HttpError("Internal Server Error")
    /\ store.judgements.errorMsg = "Internal Server Error"
    /\ ~store.judgements.submitting
    /\ store.batchItems.items \in BatchPages
    /\ inflight = <<>>

-----------------------------------------------------------------------------
(* C9 *)

GetThunks == {"getTask", "getStats", "getNextBatch", "fetchNextBatchItemsBatch"}
PostThunks == {"submitJudgementToBackend", "submitBatchJudgementsToBackend",
               "submitDataToScore"}

\* the failure action type of each call
FailureType(then) ==
    CASE then = "getTask" -> FETCH_TASK_FAILURE
      [] then = "getStats" -> FETCH_STATS_FAILURE
      [] then = "getNextBatch" -> FETCH_ITEMS_FAILURE
      [] then = "fetchNextBatchItemsBatch" -> FETCH_BATCH_ITEMS_FAILURE
      [] then = "submitJudgementToBackend" -> RECORD_JUDGEMENT_FAILURE
      [] then = "submitBatchJudgementsToBackend" -> RECORD_JUDGEMENTS_FAILURE
      [] then = "submitDataToScore" -> SUBMIT_DATA_FAILURE
\* the success action of each GET call, for the payload json
SuccessAction(then, json) ==
    CASE then = "getTask" -> fetchTaskSuccess(json)
      [] then = "getStats" -> fetchStatsSuccess(json)
      [] then = "getNextBatch" -> fetchItemsSuccess(json)
      [] then = "fetchNextBatchItemsBatch" -> fetchBatchItemsSuccess(json)

\* the handler dispatched the failure action of its call with the payload's
\* error message, and nothing else
ConvertedToFailure(ev, e) ==
    /\ Len(e) = 1
    /\ e[1].type = FailureType(ev.request.then)
    /\ e[1].errorMsg = ev.response.json.error

\* C9, as stated: for every call of the client, a response with a success
\* status whose payload has an error field is converted to the call's failure
\* action carrying the field's message.
C9_ErrorFieldAlwaysFails ==
    (lastEvent.op = "settled" /\ ErrorFieldResponse(lastEvent.response))
    => ConvertedToFailure(lastEvent, effects)

\* C9, amended: the three POST calls convert such a response to their failure
\* action carrying the field's message; the four GET calls do not look for an
\* error field and treat the payload as any other: it is passed to the success
\* action, or, for fetchNextBatchItemsBatch with a true done field, yields
\* BATCH_LABELLING_COMPLETE.
C9_ErrorFieldFailsPostCalls ==
    (lastEvent.op = "settled" /\ ErrorFieldResponse(lastEvent.response))
    => IF lastEvent.request.then \in PostThunks
       THEN ConvertedToFailure(lastEvent, effects)
       ELSE /\ lastEvent.request.then \in GetThunks
            /\ Len(effects) = 1
            /\ IF /\ lastEvent.request.then = "fetchNextBatchItemsBatch"
                  /\ "done" \in DOMAIN lastEvent.response.json
                  /\ lastEvent.response.json.done
               THEN effects[1] = batchLabellingComplete
               ELSE effects[1] = SuccessAction(lastEvent.request.then,
                                               lastEvent.response.json)

\* POST /predict answered with an error field and the demo records the message
C9_Witness ==
    /\ SettledBy(lastEvent, "submitDataToScore")
    /\ lastEvent.response = HttpOk(ErrorPayload)
    /\ effects = <<submitDataFailure("backend error")>>
    /\ store.demo.errorMsg = "backend error"

-----------------------------------------------------------------------------
(* C10 *)

\* what each fetch concern has loaded
Entities(state) ==
    [task |-> [dataType |-> state.task.dataType, labelType |-> state.task.labelType,
               isBatchView |-> state.task.isBatchView],
     stats |-> state.stats.stats,
     items |-> [items |-> state.items.items, currentIndex |-> state.items.currentIndex],
     batchItems |-> [items |-> state.batchItems.items,
                     complete |-> state.batchItems.complete]]

\* the slice of each fetch concern
Concern(then) ==
    CASE then = "getTask" -> "task"
      [] then = "getStats" -> "stats"
      [] then = "getNextBatch" -> "items"
      [] then = "fetchNextBatchItemsBatch" -> "batchItems"

\* C10: a fetch (task, stats, items, batch items) whose request fails dispatches
\* only the *_FAILURE action of its concern, with an error message; what every
\* concern has loaded is unchanged, every other slice is unchanged, and the
\* concern's error message is set.
C10_StaleOnFailure ==
    [][(/\ lastEvent'.op = "settled"
        /\ lastEvent'.request.then \in GetThunks
        /\ ~OkResponse(lastEvent'.response))
       => (/\ Len(effects') = 1
           /\ effects'[1].type = FailureType(lastEvent'.request.then)
           /\ effects'[1].errorMsg # NoError
           /\ DOMAIN effects'[1] = {"type", "errorMsg"}
           /\ Entities(store') = Entities(store)
           /\ store'[Concern(lastEvent'.request.then)].errorMsg = effects'[1].errorMsg
           /\ \A slice \in DOMAIN store :
                  slice # Concern(lastEvent'.request.then)
                  => store'[slice] = store[slice])]_vars

\* the stats loaded earlier are still in the store after a refresh failed
C10_Witness ==
    /\ SettledBy(lastEvent, "getStats")
    /\ ~OkResponse(lastEvent.response)
    /\ store.stats.stats = StatsValue(1)
    /\ store.stats.errorMsg = "Error fetching stats: Internal Server Error"

-----------------------------------------------------------------------------
(* The single-item session over a backend that serves a page of items with *)
(* paths and the one-item sequence [{id: 'a'}].                            *)

IdentityItemsResponses == StatusFailure \cup Ok({Page(1, 2), ScenarioItems})

NextIdentity ==
    \/ GetNextBatch
    \/ SubmitJudgement
    \/ GetNextBatchSettles(IdentityItemsResponses)
    \/ GetStatsSettles(ShortStatsResponses)
    \/ SubmitJudgementSettles(ShortJudgementResponses)

SpecIdentity == Init /\ [][NextIdentity]_vars

-----------------------------------------------------------------------------
(* C11 *)

\* this step is a call of submitJudgement that is accepted: the guard is clear
\* and the cursor points at an item
AcceptedSubmitJudgement ==
    /\ lastEvent'.op = "submitJudgement"
    /\ ~store.judgements.submitting
    /\ HasElement(store.items.items, store.items.currentIndex)

\* the item the cursor points at
CurrentItem == store.items.items.array[store.items.currentIndex + 1]

\* this step issues exactly one request, POST /judgements with `body`
IssuesOneJudgement(body) ==
    /\ Len(inflight') = Len(inflight) + 1
    /\ SubSeq(inflight', 1, Len(inflight)) = inflight
    /\ inflight'[Len(inflight')].url = "/judgements"
    /\ inflight'[Len(inflight')].method = "POST"
    /\ inflight'[Len(inflight')].body = body
    /\ Cardinality({i \in DOMAIN effects' : effects'[i].type = "fetch"}) = 1

\* C11, as stated: an accepted submitJudgement(label) on a current item that
\* carries an id issues exactly one POST /judgements whose body is
\* {id: <the item's id>, label}.
C11_BodyCarriesItemId ==
    [][(AcceptedSubmitJudgement /\ "id" \in DOMAIN CurrentItem)
       => IssuesOneJudgement([id |-> CurrentItem.id, label |-> lastEvent'.judgement])]_vars

\* C11, amended: an accepted submitJudgement(label) issues exactly one POST
\* /judgements whose body is {id: <the path of items[currentIndex] at the
\* moment of the call>, label}; the id is left out when the item has no path.
C11_BodyCarriesItemPath ==
    [][AcceptedSubmitJudgement
       => IssuesOneJudgement(IF "path" \in DOMAIN CurrentItem
                             THEN [id |-> CurrentItem.path,
                                   label |-> lastEvent'.judgement]
                             ELSE [label |-> lastEvent'.judgement])]_vars

\* the second item of a page was submitted under its path
C11_Witness ==
    /\ lastEvent.op = "submitJudgement"
    /\ store.items.currentIndex = 1
    /\ inflight # <<>>
    /\ inflight[Len(inflight)].body = [id |-> "102", label |-> "cat"]
    /\ store.judgements.submitting

-----------------------------------------------------------------------------
(* A session with the navigation bar: the task is loaded, the view mode is *)
(* toggled, and judgements are submitted in either mode, in at most        *)
(* MaxCalls invocations of thunks.  The task is a static descriptor: the   *)
(* backend answers every GET /task of a session with the same one.         *)

StaticTaskResponses ==
    StatusFailure \cup
    Ok(IF store.task.dataType = Undefined
       THEN TaskDescriptors
       ELSE {t \in TaskDescriptors : /\ t.dataType = store.task.dataType
                                     /\ t.labelType = store.task.labelType})

ToggleItemsResponses == Ok({Page(1, 2)})
ToggleBatchItemsResponses == Ok({Page(3, 1), DonePayload})
ToggleStatsResponses == Ok({StatsValue(1)})

NextToggle ==
    \/ CallsLeft /\ GetTask
    \/ CallsLeft /\ GetNextBatch
    \/ CallsLeft /\ SubmitJudgement
    \/ CallsLeft /\ SubmitBatchJudgements
    \/ OnClickBatch
    \/ OnClickSingle
    \/ GetTaskSettles(StaticTaskResponses)
    \/ GetNextBatchSettles(ToggleItemsResponses)
    \/ FetchNextBatchItemsBatchSettles(ToggleBatchItemsResponses)
    \/ GetStatsSettles(ToggleStatsResponses)
    \/ SubmitJudgementSettles(ShortJudgementResponses)
    \/ SubmitBatchJudgementsSettles(ShortJudgementResponses)

SpecToggle == Init /\ [][NextToggle]_vars

-----------------------------------------------------------------------------
(* C12 *)

-----------------------------------------------------------------------------
(* C16 *)

\* a batch submission settled with success
BatchSuccess(ev) ==
    /\ SettledBy(ev, "submitBatchJudgementsToBackend")
    /\ OkResponse(ev.response) /\ ~ErrorFieldResponse(ev.response)

\* C16: a click on the toggle leaves every request in flight, and a submission
\* that settles with success has its full effect whatever the view mode is
\* then: a single-item submission dispatches RECORD_JUDGEMENT_SUCCESS, starts
\* the stats refresh (and the read-ahead fetch when its condition holds) and
\* advances the cursor; a batch submission dispatches RECORD_JUDGEMENTS_SUCCESS
\* and starts the next-batch fetch.
C16_NoCancellation ==
    [][/\ lastEvent'.op \in {"onClickBatch", "onClickSingle"}
          => inflight' = inflight
       /\ SingleSuccess(lastEvent')
          => (/\ effects' # <<>>
              /\ effects'[1] = recordJudgementSuccess(lastEvent'.request.env.itemId)
              /\ Fetched(effects', "/history")
              /\ Fetched(effects', "/batch?")
                 <=> lastEvent'.request.env.currentIndex + 4
                     > Len(lastEvent'.request.env.items.array)
              /\ SHOW_NEXT_ITEM \in Types(effects')
              /\ store'.items.currentIndex = store.items.currentIndex + 1)
       /\ BatchSuccess(lastEvent')
          => (/\ effects' # <<>>
              /\ effects'[1] = recordJudgementsSuccess(lastEvent'.request.env.judgements)
              /\ Fetched(effects', "/batch_items_batch")
              /\ \E i \in DOMAIN inflight' :
                    inflight'[i].then = "fetchNextBatchItemsBatch")]_vars

\* the success of a single-item submission arrived in batch view and advanced
\* the cursor
C16_Witness ==
    /\ SingleSuccess(lastEvent)
    /\ store.task.isBatchView
    /\ SHOW_NEXT_ITEM \in Types(effects)
    /\ Fetched(effects, "/batch?")
    /\ store.items.currentIndex = lastEvent.request.env.currentIndex + 1

-----------------------------------------------------------------------------
(* C13 *)

\* the effect of fetch(url) with no options
GetEffect(url) == [type |-> "fetch", url |-> url, method |-> "GET", body |-> NoBody]

\* C13: the step that accepts the response to POST /judgements dispatches
\* RECORD_JUDGEMENT_SUCCESS first, then (only if the read-ahead condition
\* holds) starts the next-page fetch, then starts the stats refresh, then
\* advances the cursor, in that order and with nothing else in the step.
C13_SuccessEffectsInOrder ==
    SingleSuccess(lastEvent)
    => effects =
         <<recordJudgementSuccess(lastEvent.request.env.itemId)>>
         \o (IF lastEvent.request.env.currentIndex + 4
                > Len(lastEvent.request.env.items.array)
             THEN <<fetchItems, GetEffect("/batch?")>>
             ELSE <<>>)
         \o <<fetchStats, GetEffect("/history"), showNextItem>>

\* a success that started all three effects
C13_Witness ==
    /\ SingleSuccess(lastEvent)
    /\ Len(effects) = 6
    /\ effects[1].type = RECORD_JUDGEMENT_SUCCESS
    /\ effects[6].type = SHOW_NEXT_ITEM
    /\ Len(inflight) >= 2

-----------------------------------------------------------------------------
(* C14 *)

\* C14: the step that accepts the response to POST /judgements/batch
\* dispatches RECORD_JUDGEMENTS_SUCCESS and then, in this order and for every
\* state of the store, starts exactly one /batch_items_batch fetch and exactly
\* one /history refresh, and does nothing else.
C14_BatchSuccessEffects ==
    BatchSuccess(lastEvent)
    => effects = <<recordJudgementsSuccess(lastEvent.request.env.judgements),
                   fetchBatchItems, GetEffect("/batch_items_batch"),
                   fetchStats, GetEffect("/history")>>

\* a batch submission succeeded after batch labelling was complete, and asked
\* for the next batch page again
C14_Witness ==
    /\ BatchSuccess(lastEvent)
    /\ store.batchItems.complete
    /\ Fetched(effects, "/batch_items_batch")
    /\ Fetched(effects, "/history")

-----------------------------------------------------------------------------
(* Both submission pipelines in sessions of at most MaxCalls invocations,  *)
(* over a backend that answers every submission: each request that is      *)
(* issued receives a response or fails in transport, so the continuation   *)
(* of a submission in flight eventually runs.                              *)

NextLive ==
    \/ CallsLeft /\ GetNextBatch
    \/ CallsLeft /\ SubmitJudgement
    \/ CallsLeft /\ SubmitBatchJudgements
    \/ GetNextBatchSettles(ShortItemsResponses)
    \/ FetchNextBatchItemsBatchSettles(ShortBatchItemsResponses)
    \/ GetStatsSettles(ShortStatsResponses)
    \/ SubmitJudgementSettles(ShortJudgementResponses)
    \/ SubmitBatchJudgementsSettles(ShortJudgementResponses)

SpecLive ==
    /\ Init
    /\ [][NextLive]_vars
    /\ WF_vars(SubmitJudgementSettles(ShortJudgementResponses))
    /\ WF_vars(SubmitBatchJudgementsSettles(ShortJudgementResponses))

-----------------------------------------------------------------------------
(* C15 *)

\* C15: if every request that is issued is answered, then whenever the
\* submission guard is true it eventually becomes false again, after a
\* success as after any failure.
C15_GuardReleased ==
    store.judgements.submitting ~> ~store.judgements.submitting

\* a batch submission was accepted after an earlier single-item submission had
\* succeeded and released the guard
C15_Witness ==
    /\ lastEvent.op = "submitBatchJudgements"
    /\ RECORD_JUDGEMENTS \in Types(effects)
    /\ store.judgements.submitting
    /\ store.items.currentIndex = 1

-----------------------------------------------------------------------------
(* C17 *)

\* C17: refreshes of the stats may overlap; every response with a success
\* status replaces the stats by its payload, whatever is still in flight and
\* in whatever order the requests were issued, and nothing else changes the
\* stats: the stats held are those of the response that settled last.
C17_LastSettledStatsWin ==
    [][IF SettledBy(lastEvent', "getStats") /\ OkResponse(lastEvent'.response)
       THEN store'.stats.stats = lastEvent'.response.json
       ELSE store'.stats.stats = store.stats.stats]_vars

\* two refreshes were in flight together and the one issued later has settled
\* first: the response to the earlier request will replace its stats
C17_Witness ==
    /\ SettledBy(lastEvent, "getStats")
    /\ OkResponse(lastEvent.response)
    /\ store.stats.stats = lastEvent.response.json
    /\ \E j \in DOMAIN inflight :
          j < lastEvent.index /\ inflight[j].then = "getStats"

-----------------------------------------------------------------------------
(* C18 *)

\* the positions in the effects e of the actions that settle a submission
Outcomes(e) ==
    {i \in DOMAIN e : e[i].type \in {RECORD_JUDGEMENT_SUCCESS, RECORD_JUDGEMENT_FAILURE,
                                     RECORD_JUDGEMENTS_SUCCESS, RECORD_JUDGEMENTS_FAILURE}}

\* C18: the step in which a submission settles dispatches exactly one of the
\* SUCCESS and FAILURE actions of that submission, as its first effect; any
\* further effect of the step (fetches, stats refresh, cursor advance) follows
\* a SUCCESS and never a FAILURE; no other step dispatches such an action.
C18_ExactlyOneOutcome ==
    IF SettledBy(lastEvent, "submitJudgementToBackend")
    THEN /\ Outcomes(effects) = {1}
         /\ effects[1].type \in {RECORD_JUDGEMENT_SUCCESS, RECORD_JUDGEMENT_FAILURE}
         /\ effects[1].itemId = lastEvent.request.env.itemId
         /\ Len(effects) > 1 => effects[1].type = RECORD_JUDGEMENT_SUCCESS
    ELSE IF SettledBy(lastEvent, "submitBatchJudgementsToBackend")
         THEN /\ Outcomes(effects) = {1}
              /\ effects[1].type \in {RECORD_JUDGEMENTS_SUCCESS, RECORD_JUDGEMENTS_FAILURE}
              /\ effects[1].judgements = lastEvent.request.env.judgements
              /\ Len(effects) > 1 => effects[1].type = RECORD_JUDGEMENTS_SUCCESS
         ELSE Outcomes(effects) = {}

\* a single-item submission was answered with an error status and the step
\* dispatched the failure alone
C18_Witness ==
    /\ SettledBy(lastEvent, "submitJudgementToBackend")
    /\ lastEvent.response = HttpError("Internal Server Error")
    /\ Len(effects) = 1
    /\ effects[1].type = RECORD_JUDGEMENT_FAILURE
    /\ inflight = <<>>

-----------------------------------------------------------------------------
(* C19 *)

\* the requests for an item page among the requests q
ItemPageRequests(q) == {i \in DOMAIN q : q[i].then = "getNextBatch"}

\* C19: an accepted submitJudgement captures currentIndex and items as they
\* are when it is called, and sends the path found there; when the submission
\* succeeds, the read-ahead is decided on the captured values and not on the
\* store as it is then.
C19_SubmitTimeSnapshot ==
    [][/\ AcceptedSubmitJudgement
          => (/\ inflight' # <<>>
              /\ inflight'[Len(inflight')].env
                 = [itemId |-> Get(CurrentItem, "path"),
                    currentIndex |-> store.items.currentIndex,
                    items |-> store.items.items])
       /\ SingleSuccess(lastEvent')
          => (Fetched(effects', "/batch?")
              <=> inflight[lastEvent'.index].env.currentIndex + 4
                  > Len(inflight[lastEvent'.index].env.items.array))]_vars

\* an item page arrived while the submission was in flight and is long enough
\* for no read-ahead, yet the success fetched the next page, and two requests
\* for an item page are in flight
C19_Witness ==
    /\ SingleSuccess(lastEvent)
    /\ store.items.items # lastEvent.request.env.items
    /\ ~(store.items.currentIndex - 1 + 4 > Len(store.items.items.array))
    /\ Fetched(effects, "/batch?")
    /\ Cardinality(ItemPageRequests(inflight)) >= 2

-----------------------------------------------------------------------------
(* C20 *)

\* C20: a call of submitJudgement while submitting is false and the cursor
\* points at no item fails before anything is dispatched: the store is
\* unchanged (submitting stays false), no request is issued and the only
\* effect of the call is the exception.
C20_NoCurrentItemFailsEarly ==
    [][(/\ lastEvent'.op = "submitJudgement"
        /\ ~store.judgements.submitting
        /\ ~HasElement(store.items.items, store.items.currentIndex))
       => (/\ store' = store
           /\ inflight' = inflight
           /\ effects' = <<[type |-> "throw", error |-> "TypeError"]>>)]_vars

\* submitJudgement was called with the cursor past the end of a page of one
\* item, and failed
C20_Witness ==
    /\ lastEvent.op = "submitJudgement"
    /\ Types(effects) = {"throw"}
    /\ Len(store.items.items.array) = 1
    /\ store.items.currentIndex = 1
    /\ ~store.judgements.submitting

=============================================================================
